---- MODULE Spec2Model ----
(***************************************************************************)
(* A model of IPTVManager (src/main.py): the fetch / parse / probe / merge *)
(* / render cycle of run(), and the pure helpers it is built from.         *)
(*                                                                         *)
(* Text is modelled structurally.  A display name is a sequence of         *)
(* characters (one-character strings), so that lower() and strip() are     *)
(* computed.  A document is a sequence of line records; a line record      *)
(* carries what the code looks at on that line: how the line starts, what  *)
(* markup surrounds it and the attribute values of an #EXTINF line.        *)
(***************************************************************************)
EXTENDS Integers, Sequences, FiniteSets, TLC

VARIABLES
  config,          \* self.config: the options the modelled code reads
  channels_db,     \* self.channels_db: normalized key -> registry entry
  key_order,       \* the keys of self.channels_db in insertion order (a dict keeps it)
  pc,              \* where run() / process_playlists() stands
  cycle,           \* iterations of run()'s while loop started so far
  playlist_urls,   \* process_playlists: playlist_urls
  url_idx,         \* process_playlists: index of the next url of the download loop
  downloaded_files,\* process_playlists: downloaded_files
  fetch_failed,    \* urls whose download_playlist returned None in this cycle
  temp,            \* the temp/ directory: url -> cached document
  all_channels,    \* process_playlists: all_channels
  futures,         \* process_playlists: the futures of the executor
  successful_channels, \* process_playlists: successful_channels
  cycle_start_db,  \* channels_db as it was when the cycle started
  output_file,     \* the output playlist file (NoFile when it does not exist)
  backups,         \* the playlist backups of backups/, in os.listdir order
  stats_file,      \* stats.json (NoStats when it does not exist)
  merged,          \* SpecMerge: every <<candidate, ping>> update_channel_db was called with
  call             \* the specifications of one helper: the call, its arguments, its result

vars == <<config, channels_db, key_order, pc, cycle, playlist_urls, url_idx, downloaded_files,
          fetch_failed, temp, all_channels, futures, successful_channels,
          cycle_start_db, output_file, backups, stats_file,
                 merged, call>>

-----------------------------------------------------------------------------
(* Bounds of the model *)

\* iterations of run()'s loop that are explored
MaxCycles == 2
\* measured latencies range over 1..MaxLatency (milliseconds)
MaxLatency == 2
\* update_channel_db calls explored from an empty registry
MaxMerges == 3

\* float('inf'): larger than every measured latency
Inf == MaxLatency + 1

\* Python's None, where a path or a text may stand instead
None == <<>>

-----------------------------------------------------------------------------
(* Strings: str.lower, str.strip *)

Whitespace == {" "}

LowerChar(c) ==
  CASE c = "T" -> "t"
    [] c = "V" -> "v"
    [] c = "C" -> "c"
    [] OTHER -> c

Lower(s) == [i \in 1..Len(s) |-> LowerChar(s[i])]

RECURSIVE LStrip(_)
LStrip(s) == IF s # <<>> /\ Head(s) \in Whitespace THEN LStrip(Tail(s)) ELSE s

RECURSIVE RStrip(_)
RStrip(s) ==
  IF s # <<>> /\ s[Len(s)] \in Whitespace THEN RStrip(SubSeq(s, 1, Len(s) - 1)) ELSE s

Strip(s) == RStrip(LStrip(s))

\* channel['name'].lower().strip()
normalize(name) == Strip(Lower(name))

-----------------------------------------------------------------------------
(* The registry: update_channel_db *)

RegistryEntry(channel, ping) ==
  [name   |-> channel.name,
   url    |-> channel.url,
   group  |-> channel.group,
   logo   |-> channel.logo,
   ping   |-> ping,
   source |-> channel.source_file]

Put(db, key, entry) ==
  [k \in DOMAIN db \cup {key} |-> IF k = key THEN entry ELSE db[k]]

\* a plausible bug: replace on a latency that is lower or equal
update_channel_db_le(db, cfg, channel, ping) ==
  LET channel_key == normalize(channel.name) IN
  IF cfg.remove_duplicates
    THEN IF channel_key \in DOMAIN db
           THEN IF ping <= db[channel_key].ping
                  THEN Put(db, channel_key, RegistryEntry(channel, ping))
                  ELSE db
           ELSE Put(db, channel_key, RegistryEntry(channel, ping))
    ELSE db

\* a plausible bug: the newest candidate always replaces the stored one
update_channel_db_lastwins(db, cfg, channel, ping) ==
  LET channel_key == normalize(channel.name) IN
  IF cfg.remove_duplicates
    THEN Put(db, channel_key, RegistryEntry(channel, ping))
    ELSE db

\* the new value of self.channels_db after update_channel_db(channel, ping)
update_channel_db(db, cfg, channel, ping) ==
  LET channel_key == normalize(channel.name) IN
  IF cfg.remove_duplicates
    THEN IF channel_key \in DOMAIN db
           THEN IF ping < db[channel_key].ping
                  THEN Put(db, channel_key, RegistryEntry(channel, ping))
                  ELSE db
           ELSE Put(db, channel_key, RegistryEntry(channel, ping))
    ELSE db

-----------------------------------------------------------------------------
(* The availability probe: check_channel_availability *)

\* Retry(status_forcelist=...): a reply with one of these statuses is retried by
\* the session's adapter and surfaces as an exception, never as a response
status_forcelist == {429, 500, 502, 503, 504}

\* what self.session.head(...) does: it returns a response, or it raises
Response(status, elapsed) == [kind |-> "response", status |-> status, elapsed |-> elapsed]
TransportError == [kind |-> "error", status |-> 0, elapsed |-> 0]

ProbeResult(channel, ping, available) ==
  [channel |-> channel, ping |-> ping, available |-> available]

\* a plausible bug: the latency of an answered probe is never taken
check_channel_availability_untimed(cfg, channel, outcome) ==
  IF ~cfg.enable_availability_check
    THEN ProbeResult(channel, 0, TRUE)
    ELSE IF outcome.kind = "response"
           THEN ProbeResult(channel, Inf, outcome.status \in {200, 302, 301, 307})
           ELSE ProbeResult(channel, Inf, FALSE)

\* the tuple check_channel_availability(channel) returns when session.head
\* ends with outcome
check_channel_availability(cfg, channel, outcome) ==
  IF ~cfg.enable_availability_check
    THEN ProbeResult(channel, 0, TRUE)
    ELSE IF outcome.kind = "response"
           THEN ProbeResult(channel, outcome.elapsed,
                            outcome.status \in {200, 302, 301, 307})
           ELSE ProbeResult(channel, Inf, FALSE)

-----------------------------------------------------------------------------
(* Documents: sequences of line records *)

\* k: what the text of the line is
\*   "blank"                           nothing
\*   "html"                            tags only, among them <!DOCTYPE html> or <html
\*   "tags"                            other tags only
\*   "script", "style"                 a whole <script>..</script> / <style>..</style> block
\*   "script_open", "script_close"     the first / last line of a block over several lines
\*   "style_open", "style_close"
\*   "extm3u"                          #EXTM3U...
\*   "extinf"                          #EXTINF:<duration> <attributes><tail>
\*   "comment"                         any other line starting with #
\*   "url"                             <scheme><rest>
\*   "text"                            any other text
\*   "mention"                         other text with #EXTINF: somewhere inside it
\* wrap: tags around the text on the same line: "" (none), "tag", or "html"
\*   (tags among which is <html or <!DOCTYPE html>)
Line(k) ==
  [k |-> k, wrap |-> "", tvg_name |-> <<>>, group_title |-> "", tvg_logo |-> "",
   tail |-> <<>>, scheme |-> "", rest |-> ""]

ExtInf(tvg_name, group_title, tvg_logo, tail) ==
  [Line("extinf") EXCEPT !.tvg_name = tvg_name, !.group_title = group_title,
                         !.tvg_logo = tvg_logo, !.tail = tail]

UrlLine(scheme, rest) == [Line("url") EXCEPT !.scheme = scheme, !.rest = rest]

Wrapped(line, w) == [line EXCEPT !.wrap = w]

\* line.startswith(...)
StartsExtM3U(l) == l.wrap = "" /\ l.k = "extm3u"
StartsExtInf(l) == l.wrap = "" /\ l.k = "extinf"
StartsHash(l) == l.wrap = "" /\ l.k \in {"extm3u", "extinf", "comment"}
StartsHttp(l) == l.wrap = "" /\ l.k = "url" /\ l.scheme \in {"http://", "https://"}
StartsUri(l) ==
  l.wrap = "" /\ l.k = "url" /\ l.scheme \in {"http://", "https://", "rtmp://", "rtsp://"}

\* line.strip() is empty
IsBlank(l) == l.k = "blank"

\* '#EXTINF:' in content
ContainsExtInf(doc) == \E i \in 1..Len(doc) : doc[i].k \in {"extinf", "mention"}

\* '<!DOCTYPE html>' in content or '<html' in content
LooksLikeHtml(doc) == \E i \in 1..Len(doc) : doc[i].k = "html" \/ doc[i].wrap = "html"

RECURSIVE NonBlank(_)
NonBlank(doc) ==
  IF doc = <<>> THEN <<>>
  ELSE IF IsBlank(Head(doc)) THEN NonBlank(Tail(doc))
  ELSE <<Head(doc)>> \o NonBlank(Tail(doc))

-----------------------------------------------------------------------------
(* Markup extraction: clean_html_content *)

\* re.sub(r'<script[^>]*>.*?</script>', '', content, flags=re.DOTALL) on lines:
\* a block is removed with everything between its first line and the nearest
\* closing line; an opening line with no closing line after it is left alone
RECURSIVE RemoveBlocks(_, _)
RemoveBlocks(doc, tag) ==
  IF doc = <<>> THEN <<>>
  ELSE LET l == Head(doc)
           closes == {j \in 2..Len(doc) : doc[j].k = tag \o "_close"}
           first_close == CHOOSE j \in closes : \A j2 \in closes : j <= j2
       IN IF l.k = tag
            THEN <<Line("blank")>> \o RemoveBlocks(Tail(doc), tag)
          ELSE IF l.k = tag \o "_open" /\ closes # {}
            THEN <<Line("blank")>> \o RemoveBlocks(SubSeq(doc, first_close + 1, Len(doc)), tag)
          ELSE <<l>> \o RemoveBlocks(Tail(doc), tag)

\* re.sub(r'<[^>]+>', '', content): every remaining tag goes, the text stays
StripTags(doc) ==
  [i \in 1..Len(doc) |->
     IF doc[i].k \in {"html", "tags", "script", "style", "script_open", "script_close",
                      "style_open", "style_close"}
       THEN Line("blank")
       ELSE Wrapped(doc[i], "")]

\* the line automaton of lines 183-201
RECURSIVE ScanLines(_, _, _, _)
ScanLines(lines, i, in_m3u_section, m3u_lines) ==
  IF i > Len(lines) THEN m3u_lines
  ELSE LET line == lines[i] IN
    IF StartsExtM3U(line) THEN ScanLines(lines, i + 1, TRUE, Append(m3u_lines, line))
    ELSE IF StartsExtInf(line) THEN ScanLines(lines, i + 1, TRUE, Append(m3u_lines, line))
    ELSE IF in_m3u_section /\ StartsHttp(line)
      THEN ScanLines(lines, i + 1, in_m3u_section, Append(m3u_lines, line))
    ELSE IF in_m3u_section /\ IsBlank(line)
      THEN IF m3u_lines # <<>> /\ ~StartsHttp(m3u_lines[Len(m3u_lines)])
             THEN ScanLines(lines, i + 1, in_m3u_section, Append(m3u_lines, line))
             ELSE ScanLines(lines, i + 1, in_m3u_section, m3u_lines)
    ELSE IF in_m3u_section /\ ~StartsHash(line)
      THEN IF ~StartsHttp(line)
             THEN ScanLines(lines, i + 1, FALSE, m3u_lines)
             ELSE ScanLines(lines, i + 1, in_m3u_section, m3u_lines)
    ELSE ScanLines(lines, i + 1, in_m3u_section, m3u_lines)

\* content.strip().startswith(('#EXTM3U', '#EXTINF:'))
StartsWithList(doc) ==
  LET body == NonBlank(doc) IN
  body # <<>> /\ (StartsExtM3U(body[1]) \/ StartsExtInf(body[1]))

\* the text clean_html_content returns (<<>> is the empty string)
clean_html_content(content) ==
  IF StartsWithList(content) THEN content
  ELSE LET stripped == StripTags(RemoveBlocks(RemoveBlocks(content, "script"), "style"))
           lines == NonBlank(stripped)
       IN ScanLines(lines, 1, FALSE, <<>>)

-----------------------------------------------------------------------------
(* The list parser: parse_playlist, extract_field, extract_name *)

Quotes == {"\"", "'"}

\* extinf.rfind(',') within the tail of the line; 0 when there is no comma
LastComma(tail) ==
  LET commas == {i \in 1..Len(tail) : tail[i] = ","} IN
  IF commas = {} THEN 0 ELSE CHOOSE i \in commas : \A j \in commas : j <= i

\* re.sub(r'^["\']|["\']$', '', name)
StripQuotes(name) ==
  LET a == IF name # <<>> /\ Head(name) \in Quotes THEN Tail(name) ELSE name
  IN IF a # <<>> /\ a[Len(a)] \in Quotes THEN SubSeq(a, 1, Len(a) - 1) ELSE a

\* extract_name(extinf): the text after the last comma, stripped, without a
\* leading and a trailing quote
extract_name(extinf) ==
  LET last_comma == LastComma(extinf.tail) IN
  IF last_comma # 0
    THEN StripQuotes(Strip(SubSeq(extinf.tail, last_comma + 1, Len(extinf.tail))))
    ELSE <<>>

DigitChar == <<"0", "1", "2", "3", "4", "5", "6", "7", "8", "9">>

RECURSIVE Decimal(_)
Decimal(n) == IF n < 10 THEN <<DigitChar[n + 1]>> ELSE Decimal(n \div 10) \o <<DigitChar[(n % 10) + 1]>>

\* f"Channel_{channel_count}"
PlaceholderName(channel_count) ==
  <<"C", "h", "a", "n", "n", "e", "l", "_">> \o Decimal(channel_count)

\* the first index from i on of a line that does not start with '#'
RECURSIVE SkipComments(_, _)
SkipComments(lines, i) ==
  IF i <= Len(lines) /\ StartsHash(lines[i]) THEN SkipComments(lines, i + 1) ELSE i

\* str.strip() of an attribute value: a value of blanks only becomes empty
StripText(t) == IF t = " " THEN "" ELSE t

\* the channel dict of lines 305-319
Candidate(cfg, extinf_line, url_line, channel_count, source_file) ==
  LET found == IF extinf_line.tvg_name # <<>> THEN extinf_line.tvg_name
               ELSE extract_name(extinf_line)
      name == IF found = <<>> \/ Len(Strip(found)) < cfg.min_channel_name_length
                THEN PlaceholderName(channel_count) ELSE found
      group == IF extinf_line.group_title # "" THEN extinf_line.group_title ELSE "Other"
  IN [name |-> Strip(name),
      url |-> <<url_line.scheme, url_line.rest>>,
      group |-> StripText(group),
      logo |-> StripText(extinf_line.tvg_logo),
      source_file |-> source_file]

\* the while loop of lines 290-324
RECURSIVE ParseLoop(_, _, _, _, _, _)
ParseLoop(cfg, lines, i, channel_count, channels, source_file) ==
  IF i > Len(lines) THEN channels
  ELSE IF StartsExtInf(lines[i])
    THEN LET j == SkipComments(lines, i + 1) IN
         IF j <= Len(lines) /\ StartsUri(lines[j])
           THEN ParseLoop(cfg, lines, j + 1, channel_count + 1,
                          Append(channels,
                                 Candidate(cfg, lines[i], lines[j], channel_count, source_file)),
                          source_file)
           ELSE ParseLoop(cfg, lines, j + 1, channel_count, channels, source_file)
    ELSE ParseLoop(cfg, lines, i + 1, channel_count, channels, source_file)

\* the list parse_playlist returns for a file holding content
parse_playlist(cfg, content, source_file) ==
  ParseLoop(cfg, NonBlank(content), 1, 0, <<>>, source_file)

-----------------------------------------------------------------------------
(* The source fetcher: download_playlist *)

\* what one attempt meets: session.get raises (timeout, connection error, any
\* other exception) or returns a response; after a good response the cache file
\* is opened and written, which succeeds ("ok"), fails at open ("open_failed")
\* or fails after the file was truncated ("write_failed")
FetchRaised(kind) == [kind |-> kind, status |-> 0, body |-> <<>>, write |-> "ok"]
FetchResponse(status, body, write) ==
  [kind |-> "response", status |-> status, body |-> body, write |-> write]

\* hashlib.md5(url.encode()).hexdigest() + ".m3u" under temp/
CachePath(url) == <<"temp", url>>

MaxRetries(cfg) == IF cfg.quiet_mode THEN 1 ELSE 2

Rejected == [ok |-> FALSE, content |-> <<>>]
Accepted(content) == [ok |-> TRUE, content |-> content]

\* a plausible bug: the raw body is accepted without looking for #EXTINF:
AttemptContent_nomarker(cfg, outcome) ==
  IF outcome.kind # "response" \/ outcome.status # 200 THEN Rejected
  ELSE IF cfg.clean_html_files /\ LooksLikeHtml(outcome.body)
    THEN LET clean_content == clean_html_content(outcome.body) IN
         IF clean_content # <<>> /\ ContainsExtInf(clean_content)
           THEN Accepted(clean_content) ELSE Rejected
  ELSE Accepted(outcome.body)

\* the content an attempt stores, or Rejected when the attempt fails before the
\* cache file is touched (lines 227-244)
AttemptContent(cfg, outcome) ==
  IF outcome.kind # "response" \/ outcome.status # 200 THEN Rejected
  ELSE IF cfg.clean_html_files /\ LooksLikeHtml(outcome.body)
    THEN LET clean_content == clean_html_content(outcome.body) IN
         IF clean_content # <<>> /\ ContainsExtInf(clean_content)
           THEN Accepted(clean_content) ELSE Rejected
  ELSE IF ~ContainsExtInf(outcome.body) THEN Rejected
  ELSE Accepted(outcome.body)

\* the cache file as a call leaves it: untouched, or holding content
Untouched == [touched |-> FALSE, content |-> <<>>]
Holding(content) == [touched |-> TRUE, content |-> content]

\* the for loop of lines 215-277 from attempt on.  The result: what is returned
\* (None or the path), how many attempts were made, how often the loop slept,
\* and what became of the cache file.
RECURSIVE DownloadLoop(_, _, _, _, _, _)
DownloadLoop(cfg, url, script, attempt, sleeps, file) ==
  IF attempt >= MaxRetries(cfg)
    THEN [ret |-> None, attempts |-> attempt, sleeps |-> sleeps, file |-> file]
  ELSE LET outcome == script[attempt + 1]
           got == AttemptContent(cfg, outcome)
           pause == IF attempt < MaxRetries(cfg) - 1 THEN 1 ELSE 0
       IN IF ~got.ok
            THEN IF outcome.kind = "response" /\ outcome.status = 200
                   THEN \* continue: the pause of line 273 is skipped
                        DownloadLoop(cfg, url, script, attempt + 1, sleeps, file)
                   ELSE DownloadLoop(cfg, url, script, attempt + 1, sleeps + pause, file)
          ELSE IF outcome.write = "ok"
            THEN [ret |-> CachePath(url), attempts |-> attempt + 1, sleeps |-> sleeps,
                  file |-> Holding(got.content)]
          ELSE DownloadLoop(cfg, url, script, attempt + 1, sleeps + pause,
                            IF outcome.write = "write_failed" THEN Holding(<<>>) ELSE file)

download_playlist(cfg, url, script) == DownloadLoop(cfg, url, script, 0, 0, Untouched)

-----------------------------------------------------------------------------
(* The renderer: sort_channels with sorting = 'ping', and the output file *)

\* sorted(channels, key=lambda x: x['ping']): a stable sort
RECURSIVE InsertByPing(_, _)
\* lines 514-517, to whole milliseconds; a float sum with an inf term is inf
calculate_average_ping(channels) ==
  LET RECURSIVE Sum(_)
      Sum(rest) == IF rest = <<>> THEN 0 ELSE Head(rest).ping + Sum(Tail(rest))
  IN IF channels = <<>> THEN 0
     ELSE IF \E i \in 1..Len(channels) : channels[i].ping = Inf THEN Inf
     ELSE Sum(channels) \div Len(channels)

\* lines 568-569: min(...) if channels else 0, max(...) if channels else 0
min_ping(channels) ==
  IF channels = <<>> THEN 0
  ELSE LET pings == {channels[i].ping : i \in 1..Len(channels)}
       IN CHOOSE p \in pings : \A q \in pings : p <= q

max_ping(channels) ==
  IF channels = <<>> THEN 0
  ELSE LET pings == {channels[i].ping : i \in 1..Len(channels)}
       IN CHOOSE p \in pings : \A q \in pings : q <= p

InsertByPing(sorted, e) ==
  IF sorted = <<>> THEN <<e>>
  ELSE IF sorted[Len(sorted)].ping <= e.ping THEN Append(sorted, e)
  ELSE Append(InsertByPing(SubSeq(sorted, 1, Len(sorted) - 1), e), sorted[Len(sorted)])

RECURSIVE sort_channels(_)
sort_channels(channels) ==
  IF channels = <<>> THEN <<>>
  ELSE InsertByPing(sort_channels(SubSeq(channels, 1, Len(channels) - 1)),
                    channels[Len(channels)])

\* the output playlist: absent, or the generation time of its header and the
\* channels written below it
NoFile == [exists |-> FALSE, generated |-> 0, average_ping |-> 0, channels |-> <<>>]
Playlist(now, channels) ==
  [exists |-> TRUE, generated |-> now, average_ping |-> calculate_average_ping(channels),
   channels |-> channels]

\* list(self.channels_db.values())
Values(db, order) == [i \in 1..Len(order) |-> db[order[i]]]

\* a comment line with its text; the '#GROUP: <group>' line of line 498
Comment(text) == [Line("comment") EXCEPT !.rest = text]
GroupLine(group) == [Line("comment") EXCEPT !.rest = "#GROUP: ", !.group_title = group]

\* value as the pattern attribute="([^"]*)" finds it again in attribute="<value>":
\* the characters before the first double quote of value
RECURSIVE UpToQuote(_)
UpToQuote(value) ==
  IF value = <<>> \/ Head(value) = "\"" THEN <<>>
  ELSE <<Head(value)>> \o UpToQuote(Tail(value))

\* the '#EXTINF:' line of lines 501-504 as extract_field and extract_name read
\* it: tvg-name="<name>" ... group-title="<group>",<name>
RenderExtInf(channel) ==
  ExtInf(UpToQuote(channel.name), channel.group, channel.logo, <<",">> \o channel.name)

\* the loop of lines 494-505
RECURSIVE RenderChannels(_, _, _, _)
RenderChannels(channels, i, current_group, lines) ==
  IF i > Len(channels) THEN lines
  ELSE LET channel == channels[i]
           marker == IF channel.group # current_group
                       THEN (IF current_group # "" THEN <<Line("blank")>> ELSE <<>>)
                              \o <<GroupLine(channel.group)>>
                       ELSE <<>>
       IN RenderChannels(channels, i + 1, channel.group,
                         lines \o marker
                           \o <<RenderExtInf(channel), UrlLine(channel.url[1], channel.url[2])>>)

\* the text of the output file: the header of lines 488-491, then the channels
RenderLines(channels) ==
  RenderChannels(channels, 1, "",
                 <<Line("extm3u"), Comment("# Generated: "), Comment("# Total channels: "),
                   Comment("# Average ping: "), Line("blank")>>)

\* what the file operations of one generate_playlist call meet:
\*   backup  os.makedirs and shutil.copy2: "ok", "makedirs_failed", "copy_failed"
\*   remove  os.remove in cleanup_old_backups: "ok", or "failed" (the first one raises)
\*   write   the output file: "ok", "open_failed", or "write_failed" (it raises
\*           after the file was truncated)
\*   stats   open and json.dump of stats.json: "ok", "failed"
Io(backup, remove, write, stats) ==
  [backup |-> backup, remove |-> remove, write |-> write, stats |-> stats]

IoOk == Io("ok", "ok", "ok", "ok")

\* a file of backups/: playlist_backup_<name>.m3u and its modification time
BackupFile(name, mtime) == [name |-> name, mtime |-> mtime]

\* files.sort(key=os.path.getmtime): a stable sort
RECURSIVE InsertByMtime(_, _)
InsertByMtime(sorted, f) ==
  IF sorted = <<>> THEN <<f>>
  ELSE IF sorted[Len(sorted)].mtime <= f.mtime THEN Append(sorted, f)
  ELSE Append(InsertByMtime(SubSeq(sorted, 1, Len(sorted) - 1), f), sorted[Len(sorted)])

RECURSIVE SortByMtime(_)
SortByMtime(files) ==
  IF files = <<>> THEN <<>>
  ELSE InsertByMtime(SortByMtime(SubSeq(files, 1, Len(files) - 1)), files[Len(files)])

\* the directory without the files named in removed
Without(dir, removed) ==
  LET Kept(f) == f.name \notin removed IN SelectSeq(dir, Kept)

\* a plausible bug: files.pop() takes the newest file
cleanup_old_backups_newest(cfg, dir, io) ==
  LET files == SortByMtime(dir)
      max_backups == cfg.max_backup_files
      excess == IF Len(files) > max_backups THEN Len(files) - max_backups ELSE 0
      removed == IF io.remove = "ok"
                   THEN {files[i].name : i \in (Len(files) - excess + 1)..Len(files)}
                   ELSE {}
  IN [dir |-> Without(dir, removed), listed |-> Len(files), removed |-> removed,
      raised |-> FALSE]

\* cleanup_old_backups (lines 548-561): the directory it leaves, how many
\* backups it listed, the names it removed, and whether an exception leaves it
cleanup_old_backups(cfg, dir, io) ==
  LET files == SortByMtime(dir)
      max_backups == cfg.max_backup_files
      excess == IF Len(files) > max_backups THEN Len(files) - max_backups ELSE 0
      removed == IF io.remove = "ok" THEN {files[i].name : i \in 1..excess} ELSE {}
  IN [dir |-> Without(dir, removed), listed |-> Len(files), removed |-> removed,
      raised |-> FALSE]

\* shutil.copy2(output_file, backup_file): the copy has the modification time
\* of the output file; a file of the same name is replaced
CopyInto(dir, name, mtime) ==
  IF \E i \in 1..Len(dir) : dir[i].name = name
    THEN [i \in 1..Len(dir) |->
            IF dir[i].name = name THEN BackupFile(name, mtime) ELSE dir[i]]
    ELSE Append(dir, BackupFile(name, mtime))

NotPruned(dir, raised) == [dir |-> dir, listed |-> 0, removed |-> {}, raised |-> raised]

\* a plausible bug: no try around the body, a failed copy leaves the method as
\* an exception
backup_playlist_uncaught(cfg, dir, output, now, io) ==
  IF io.backup = "makedirs_failed" THEN NotPruned(dir, TRUE)
  ELSE IF ~output.exists THEN NotPruned(dir, FALSE)
  ELSE IF io.backup = "copy_failed" THEN NotPruned(dir, TRUE)
  ELSE cleanup_old_backups(cfg, CopyInto(dir, now, output.generated), io)

\* backup_playlist (lines 531-546); now stands for the timestamp of the name
backup_playlist(cfg, dir, output, now, io) ==
  IF io.backup = "makedirs_failed" THEN NotPruned(dir, FALSE)
  ELSE IF ~output.exists THEN NotPruned(dir, FALSE)
  ELSE IF io.backup = "copy_failed" THEN NotPruned(dir, FALSE)
  ELSE cleanup_old_backups(cfg, CopyInto(dir, now, output.generated), io)

\* stats.json: absent, or the counts of lines 565-580
NoStats ==
  [exists |-> FALSE, generated |-> 0, total_channels |-> 0, groups |-> <<>>,
   average_ping |-> 0, min_ping |-> 0, max_ping |-> 0]
Stats(now, channels) ==
  LET groups == {channels[i].group : i \in 1..Len(channels)} IN
  [exists |-> TRUE, generated |-> now, total_channels |-> Len(channels),
   groups |-> [g \in groups |->
                 Cardinality({i \in 1..Len(channels) : channels[i].group = g})],
   average_ping |-> calculate_average_ping(channels),
   min_ping |-> min_ping(channels), max_ping |-> max_ping(channels)]

\* generate_stats (lines 563-588): the file it leaves, and whether an
\* exception leaves it
generate_stats(file, channels, now, io) ==
  IF io.stats = "ok" THEN [file |-> Stats(now, channels), raised |-> FALSE]
  ELSE [file |-> file, raised |-> FALSE]

\* the three files generate_playlist works on
Files3(output, dir, stats) == [output |-> output, backups |-> dir, stats |-> stats]

\* what a call leaves: the files, what the pruning did, and whether the
\* handler of line 511 logged an error
Generated(output, dir, stats, pruned, error) ==
  [output |-> output, backups |-> dir, stats |-> stats, listed |-> pruned.listed,
   removed |-> pruned.removed, error |-> error]

\* generate_playlist (lines 472-512) with sorting = 'ping': nothing happens
\* for an empty registry; otherwise the backup, then the header and the sorted
\* channels, then the statistics.  The first exception ends the try block.
generate_playlist(cfg, db, order, fs, now, io) ==
  IF DOMAIN db = {}
    THEN Generated(fs.output, fs.backups, fs.stats, NotPruned(fs.backups, FALSE), FALSE)
  ELSE LET sorted_channels == sort_channels(Values(db, order))
           b == IF cfg.backup_playlists
                  THEN backup_playlist(cfg, fs.backups, fs.output, now, io)
                  ELSE NotPruned(fs.backups, FALSE)
       IN IF b.raised THEN Generated(fs.output, b.dir, fs.stats, b, TRUE)
          ELSE IF io.write = "open_failed" THEN Generated(fs.output, b.dir, fs.stats, b, TRUE)
          ELSE IF io.write = "write_failed"
            THEN Generated(Playlist(now, <<>>), b.dir, fs.stats, b, TRUE)
          ELSE LET s == generate_stats(fs.stats, sorted_channels, now, io) IN
               Generated(Playlist(now, sorted_channels), b.dir, s.file, b, s.raised)

-----------------------------------------------------------------------------
(* Configurations and inputs *)

\* what load_config can return, restricted to the options the model reads;
\* min_channel_name_length, max_concurrent_checks, backup_playlists and
\* max_backup_files are fixed
Config(dedup, check, quiet, clean) ==
  [remove_duplicates |-> dedup, enable_availability_check |-> check,
   quiet_mode |-> quiet, clean_html_files |-> clean,
   min_channel_name_length |-> 3, max_concurrent_checks |-> 2,
   backup_playlists |-> TRUE, max_backup_files |-> 5]

Source1 == "http://one/list"
Source2 == "http://two/list"

\* a plain list with one channel, "Tv1"
DocPlain ==
  <<Line("extm3u"),
    ExtInf(<<>>, "News", "", <<",", "T", "v", "1">>),
    UrlLine("http://", "a/1")>>

\* a list inside a page: "tv1" (named by tvg-name) and "Tv2"
DocPage ==
  <<Line("html"), Line("script"), Wrapped(Line("extm3u"), "tag"),
    ExtInf(<<"t", "v", "1">>, "", "logo", <<",", "x">>),
    UrlLine("https://", "b/1"),
    ExtInf(<<>>, "News", "", <<",", "T", "v", "2">>),
    UrlLine("http://", "c/2"),
    Line("tags")>>

\* a page with no list in it
DocNoList == <<Line("html"), Line("text"), Line("tags")>>

\* a page that only mentions the marker in its text
DocMention == <<Wrapped(Line("text"), "html"), Line("mention"), Line("tags")>>

\* plain text without the marker
DocText == <<Line("text"), UrlLine("http://", "a/1")>>

\* a list that starts with the marker and has a tag further down
DocListFirst ==
  <<ExtInf(<<>>, "", "", <<",", "T", "v", "1">>), UrlLine("rtmp://", "d/1"), Line("html")>>

Docs == {DocPlain, DocPage, DocNoList, DocMention, DocText, DocListFirst}

\* candidates as update_channel_db can be handed them
Channel(name, url, group, source_file) ==
  [name |-> name, url |-> url, group |-> group, logo |-> "", source_file |-> source_file]

Channels ==
  {Channel(<<"T", "v", "1">>, <<"http://", "a/1">>, "News", Source1),
   Channel(<<"t", "v", "1", " ">>, <<"https://", "b/1">>, "Other", Source2),
   Channel(<<" ", "T", "V", "1">>, <<"rtmp://", "d/1">>, "News", Source2),
   Channel(<<"T", "v", "2">>, <<"http://", "c/2">>, "News", Source2)}

\* statuses a server may answer with
HttpStatuses == {200, 204, 301, 302, 303, 307, 308, 403, 404, 410, 429, 500, 503}

\* what session.head can end with
ProbeOutcomes ==
  {Response(st, ms) : st \in HttpStatuses \ status_forcelist, ms \in 1..MaxLatency}
    \cup {TransportError}

\* what one attempt of download_playlist can meet
FetchOutcomes ==
  {FetchRaised(k) : k \in {"timeout", "connection_error", "exception"}}
    \cup {FetchResponse(404, <<>>, "ok")}
    \cup {FetchResponse(200, d, w) : d \in Docs, w \in {"ok", "open_failed", "write_failed"}}

NoCall == [fn |-> "none"]

-----------------------------------------------------------------------------
(* State shared by the specifications *)

EmptyDb == [k \in {} |-> {}]

\* a dict keeps a new key behind the keys it has; a replaced value keeps its place
InsertionOrder(order, db_after) ==
  LET new == {k \in DOMAIN db_after : \A i \in 1..Len(order) : order[i] # k} IN
  IF new = {} THEN order ELSE Append(order, CHOOSE k \in new : TRUE)

\* the state right after IPTVManager(): line 22, and nothing fetched yet
Constructed ==
  /\ channels_db = EmptyDb
  /\ key_order = <<>>
  /\ cycle = 0
  /\ playlist_urls = <<>>
  /\ url_idx = 1
  /\ downloaded_files = <<>>
  /\ fetch_failed = {}
  /\ temp = EmptyDb
  /\ all_channels = <<>>
  /\ futures = <<>>
  /\ successful_channels = 0
  /\ cycle_start_db = EmptyDb
  /\ output_file = NoFile
  /\ backups = <<>>
  /\ stats_file = NoStats
  /\ merged = {}

\* the variables of run() that a call of one helper leaves alone
run_vars == <<cycle, playlist_urls, url_idx, downloaded_files, fetch_failed,
              all_channels, futures, cycle_start_db, output_file, backups, stats_file>>

-----------------------------------------------------------------------------
(* SpecMerge: update_channel_db called any number of times on a new manager *)

InitMerge ==
  /\ Constructed
  /\ config \in {Config(d, TRUE, TRUE, TRUE) : d \in BOOLEAN}
  /\ pc = "merge"
  /\ call = NoCall

UpdateChannelDb ==
  /\ pc = "merge"
  /\ successful_channels < MaxMerges
  /\ \E channel \in Channels, ping \in 0..MaxLatency :
       /\ channels_db' = update_channel_db(channels_db, config, channel, ping)
       /\ key_order' = InsertionOrder(key_order, channels_db')
       /\ merged' = merged \cup {<<channel, ping>>}
       /\ call' = [fn |-> "update_channel_db", channel |-> channel, ping |-> ping]
  /\ successful_channels' = successful_channels + 1
  /\ UNCHANGED <<config, pc, temp, run_vars>>

NextMerge == UpdateChannelDb

SpecMerge == InitMerge /\ [][NextMerge]_vars

-----------------------------------------------------------------------------
(* SpecProbe: one call of check_channel_availability *)

InitProbe ==
  /\ Constructed
  /\ config \in {Config(TRUE, c, TRUE, TRUE) : c \in BOOLEAN}
  /\ pc = "call"
  /\ call \in {[fn |-> "check_channel_availability", channel |-> ch, outcome |-> o,
                ret |-> <<>>] : ch \in Channels, o \in ProbeOutcomes}

CheckChannelAvailability ==
  /\ pc = "call"
  /\ call.fn = "check_channel_availability"
  /\ call' = [call EXCEPT !.ret =
                <<check_channel_availability(config, call.channel, call.outcome)>>]
  /\ pc' = "returned"
  /\ UNCHANGED <<config, channels_db, key_order, temp, successful_channels, merged, run_vars>>

NextProbe == CheckChannelAvailability

SpecProbe == InitProbe /\ [][NextProbe]_vars

-----------------------------------------------------------------------------
(* SpecFetch: one call of download_playlist; script[a] is what attempt a meets *)

ApplyFile(files, url, file) ==
  IF file.touched THEN Put(files, url, file.content) ELSE files

InitFetch ==
  /\ Constructed
  /\ config \in {Config(TRUE, TRUE, q, h) : q \in BOOLEAN, h \in BOOLEAN}
  /\ pc = "call"
  /\ call \in {[fn |-> "download_playlist", url |-> Source1, script |-> sc, ret |-> <<>>] :
                 sc \in [1..2 -> FetchOutcomes]}

DownloadPlaylist ==
  /\ pc = "call"
  /\ call.fn = "download_playlist"
  /\ LET r == download_playlist(config, call.url, call.script) IN
       /\ call' = [call EXCEPT !.ret = <<r>>]
       /\ temp' = ApplyFile(temp, call.url, r.file)
  /\ pc' = "returned"
  /\ UNCHANGED <<config, channels_db, key_order, successful_channels, merged, run_vars>>

NextFetch == DownloadPlaylist

SpecFetch == InitFetch /\ [][NextFetch]_vars

-----------------------------------------------------------------------------
(* SpecClean: one call of clean_html_content *)

MaxPairs == 2
MaxDocLines == 3

Schemes == {"http://", "https://", "rtmp://", "rtsp://"}

\* the entries a served list can hold: a metadata line and the line of its url
ListPairs ==
  {<<ExtInf(<<>>, "News", "", <<",", "T", "v", "1">>), UrlLine(s, "a/1")>> : s \in Schemes}

RECURSIVE Flatten(_)
Flatten(seqs) == IF seqs = <<>> THEN <<>> ELSE Head(seqs) \o Flatten(Tail(seqs))

\* channel lists: the section marker, then up to MaxPairs entries
ChannelLists ==
  {<<Line("extm3u")>> \o Flatten(ps) :
     ps \in UNION {[1..n -> ListPairs] : n \in 1..MaxPairs}}

\* pages around a list: tags, a script and a style before it and tags after it
PageAround(list) ==
  <<Line("html"), Line("tags"), Line("script"), Line("style")>> \o list \o <<Line("tags")>>

\* the same with blocks over several lines, one of them holding a url
PageBlocks(list) ==
  <<Line("html"), Line("script_open"), Line("text"), UrlLine("http://", "x/ad"),
    Line("script_close"), Line("style_open"), Line("text"), Line("style_close"),
    Line("tags")>> \o list \o <<Line("tags"), Line("tags")>>

\* every line of the list between tags of its own
PageInline(list) ==
  [i \in 1..Len(list) |-> Wrapped(list[i], IF i = 1 THEN "html" ELSE "tag")]

\* lines a page can hold below its first tag
FreeLines ==
  {Line("extm3u"), ExtInf(<<>>, "News", "", <<",", "T", "v", "1">>), Line("comment"),
   UrlLine("http://", "a/1"), UrlLine("rtsp://", "d/1"), Line("text")}

FreePages ==
  {<<Line("html")>> \o ls : ls \in UNION {[1..n -> FreeLines] : n \in 1..MaxDocLines}}

\* a call of clean_html_content: the content, and the list the page was built
\* around (<<>> for a page that was not built around one)
CleanCall(content, list) ==
  [fn |-> "clean_html_content", content |-> content, list |-> list, ret |-> <<>>]

InitClean ==
  /\ Constructed
  /\ config = Config(TRUE, TRUE, TRUE, TRUE)
  /\ pc = "call"
  /\ call \in UNION {{CleanCall(PageAround(l), l), CleanCall(PageBlocks(l), l),
                       CleanCall(PageInline(l), l)} : l \in ChannelLists}
               \cup {CleanCall(p, <<>>) : p \in FreePages}

CleanHtmlContent ==
  /\ pc = "call"
  /\ call.fn = "clean_html_content"
  /\ call' = [call EXCEPT !.ret = <<clean_html_content(call.content)>>]
  /\ pc' = "returned"
  /\ UNCHANGED <<config, channels_db, key_order, temp, successful_channels, merged, run_vars>>

NextClean == CleanHtmlContent

SpecClean == InitClean /\ [][NextClean]_vars

-----------------------------------------------------------------------------
(* SpecParse: one call of parse_playlist on a cached file *)

MaxFileLines == 4

\* the while loop of lines 290-324 once more, for the lines it pairs: the
\* indices <<i, j>> of the metadata line and the url line of every channel
\* appended, in the order of appending
RECURSIVE PairLoop(_, _, _)
PairLoop(lines, i, pairs) ==
  IF i > Len(lines) THEN pairs
  ELSE IF StartsExtInf(lines[i])
    THEN LET j == SkipComments(lines, i + 1) IN
         IF j <= Len(lines) /\ StartsUri(lines[j])
           THEN PairLoop(lines, j + 1, Append(pairs, <<i, j>>))
           ELSE PairLoop(lines, j + 1, pairs)
    ELSE PairLoop(lines, i + 1, pairs)

\* lines of a cached file: a named entry, an entry whose name is too short, an
\* entry that is itself called Channel_1, urls, a comment and other text
FileLines ==
  {ExtInf(<<>>, "News", "", <<",", "T", "v", "1">>),
   ExtInf(<<>>, "", "logo", <<",", "x">>),
   ExtInf(<<"C", "h", "a", "n", "n", "e", "l", "_", "1">>, "Kids", "", <<",", "y">>),
   UrlLine("http://", "a/1"),
   UrlLine("rtmp://", "d/1"),
   Line("comment"),
   Line("text")}

Files == UNION {[1..n -> FileLines] : n \in 1..MaxFileLines}

InitParse ==
  /\ Constructed
  /\ config = Config(TRUE, TRUE, TRUE, TRUE)
  /\ pc = "call"
  /\ call \in {[fn |-> "parse_playlist", content |-> f, source_file |-> Source1,
                ret |-> <<>>] : f \in Files}

ParsePlaylist ==
  /\ pc = "call"
  /\ call.fn = "parse_playlist"
  /\ call' = [call EXCEPT !.ret = <<parse_playlist(config, call.content, call.source_file)>>]
  /\ pc' = "returned"
  /\ UNCHANGED <<config, channels_db, key_order, temp, successful_channels, merged, run_vars>>

NextParse == ParsePlaylist

SpecParse == InitParse /\ [][NextParse]_vars

-----------------------------------------------------------------------------
(* SpecRender: one call of generate_playlist on a registry the pipeline built *)

\* sources: two groups; a name with a double quote inside; a group-title of
\* blanks only
SrcGroups ==
  <<Line("extm3u"),
    ExtInf(<<>>, "News", "", <<",", "T", "v", "1">>), UrlLine("http://", "a/1"),
    ExtInf(<<>>, "Kids", "logo", <<",", "T", "v", "2">>), UrlLine("rtmp://", "c/2")>>

SrcQuote ==
  <<ExtInf(<<>>, "News", "", <<",", "T", "\"", "v">>), UrlLine("http://", "a/1")>>

SrcBlankGroup ==
  <<ExtInf(<<"T", "v", "1">>, " ", "", <<",", "x">>), UrlLine("https://", "b/1")>>

\* a channel whose group strips to the empty string between two named groups
SrcEmptyBetween ==
  <<ExtInf(<<>>, "News", "", <<",", "T", "v", "1">>), UrlLine("http://", "a/1"),
    ExtInf(<<>>, " ", "", <<",", "T", "v", "2">>), UrlLine("https://", "b/1"),
    ExtInf(<<>>, "Kids", "", <<",", "T", "v", "3">>), UrlLine("rtmp://", "c/2")>>

RenderSources == {SrcGroups, SrcQuote, SrcBlankGroup, SrcEmptyBetween}

\* the registry after the channels of one parsed source were merged with the
\* latencies pings, and the order of its keys
RECURSIVE MergeAll(_, _, _, _, _)
MergeAll(cfg, channels, pings, i, reg) ==
  IF i > Len(channels) THEN reg
  ELSE LET db == update_channel_db(reg.db, cfg, channels[i], pings[i]) IN
       MergeAll(cfg, channels, pings, i + 1,
                [db |-> db, order |-> InsertionOrder(reg.order, db)])

Registries(cfg) ==
  UNION {LET channels == parse_playlist(cfg, src, Source1) IN
         {MergeAll(cfg, channels, pings, 1, [db |-> EmptyDb, order |-> <<>>]) :
            pings \in [1..Len(channels) -> 1..MaxLatency]} : src \in RenderSources}

\* the file operations and what they can meet
RenderIos ==
  {Io(b, r, w, s) : b \in {"ok", "makedirs_failed", "copy_failed"}, r \in {"ok", "failed"},
                    w \in {"ok", "open_failed", "write_failed"}, s \in {"ok", "failed"}}

\* the files before the call: none yet, or an output of an earlier cycle, its
\* statistics and as many backups as max_backup_files allows
OldChannels == <<RegistryEntry(Channel(<<"o", "l", "d">>, <<"http://", "a/1">>, "News", Source1), 1)>>

\* process_playlists has returned: its locals are gone
BetweenCycles ==
  /\ playlist_urls = <<>>
  /\ url_idx = 1
  /\ downloaded_files = <<>>
  /\ fetch_failed = {}
  /\ temp = EmptyDb
  /\ all_channels = <<>>
  /\ futures = <<>>
  /\ successful_channels = 0
  /\ cycle_start_db = EmptyDb
  /\ merged = {}

InitRender ==
  /\ config = Config(TRUE, TRUE, TRUE, TRUE)
  /\ \E reg \in Registries(Config(TRUE, TRUE, TRUE, TRUE)) :
       channels_db = reg.db /\ key_order = reg.order
  /\ cycle = config.max_backup_files + 2
  /\ BetweenCycles
  /\ \E old \in BOOLEAN :
       /\ output_file = IF old THEN Playlist(cycle - 1, OldChannels) ELSE NoFile
       /\ backups = IF old THEN [i \in 1..config.max_backup_files |-> BackupFile(i, i - 1)]
                    ELSE <<>>
       /\ stats_file = IF old THEN Stats(cycle - 1, OldChannels) ELSE NoStats
  /\ pc = "call"
  /\ call \in {[fn |-> "generate_playlist", io |-> io, ret |-> <<>>] : io \in RenderIos}

RenderPlaylist ==
  /\ pc = "call"
  /\ call.fn = "generate_playlist"
  /\ LET r == generate_playlist(config, channels_db, key_order,
                                Files3(output_file, backups, stats_file), cycle, call.io)
     IN /\ output_file' = r.output
        /\ backups' = r.backups
        /\ stats_file' = r.stats
        /\ call' = [call EXCEPT !.ret = <<r>>]
  /\ pc' = "returned"
  /\ UNCHANGED <<config, channels_db, key_order, temp, successful_channels, merged, cycle,
                 playlist_urls, url_idx, downloaded_files, fetch_failed, all_channels,
                 futures, cycle_start_db>>

NextRender == RenderPlaylist

SpecRender == InitRender /\ [][NextRender]_vars

-----------------------------------------------------------------------------
(* SpecBackup: generate_playlist called cycle after cycle on one registry, *)
(* for what becomes of the backup directory                                *)

MaxRenders == 8

BackupIos ==
  {Io(b, r, w, "ok") : b \in {"ok", "copy_failed"}, r \in {"ok", "failed"},
                       w \in {"ok", "open_failed"}}

InitBackup ==
  /\ config \in {[Config(TRUE, TRUE, TRUE, TRUE) EXCEPT !.max_backup_files = m] : m \in {2, 5}}
  /\ LET reg == MergeAll(config, parse_playlist(config, DocPlain, Source1), <<1>>, 1,
                         [db |-> EmptyDb, order |-> <<>>])
     IN channels_db = reg.db /\ key_order = reg.order
  /\ cycle = 0
  /\ BetweenCycles
  /\ output_file = NoFile
  /\ backups = <<>>
  /\ stats_file = NoStats
  /\ pc = "generate"
  /\ call = NoCall

\* one more cycle of run() that leaves the registry as it is
BackupCycle ==
  /\ pc = "generate"
  /\ cycle < MaxRenders
  /\ cycle' = cycle + 1
  /\ \E io \in BackupIos :
       LET r == generate_playlist(config, channels_db, key_order,
                                  Files3(output_file, backups, stats_file), cycle', io)
       IN /\ output_file' = r.output
          /\ backups' = r.backups
          /\ stats_file' = r.stats
          /\ call' = [fn |-> "generate_playlist", io |-> io, had_output |-> output_file.exists,
                      listed |-> r.listed, removed |-> r.removed]
  /\ UNCHANGED <<config, channels_db, key_order, pc, temp, successful_channels, merged,
                 playlist_urls, url_idx, downloaded_files, fetch_failed, all_channels,
                 futures, cycle_start_db>>

NextBackup == BackupCycle

SpecBackup == InitBackup /\ [][NextBackup]_vars

-----------------------------------------------------------------------------
(* SpecSession: one call of check_channel_availability, with the requests   *)
(* that self.session sends for it                                           *)

MaxReplies == 4

\* Retry(total=...) of setup_session
RetryTotal(cfg) == IF cfg.quiet_mode THEN 2 ELSE 3

\* what one HEAD request meets: a status, or NoReply for a connection or read
\* error; the adapter repeats the request after an error and after a status of
\* the force list
NoReply == 0
Retriable(reply) == reply = NoReply \/ reply \in status_forcelist

\* a plausible bug: the adapter is mounted without a retry policy
session_head_once(cfg, url, replies, elapsed) ==
  IF url[1] \notin {"http://", "https://"}
    THEN [outcome |-> TransportError, requests |-> 0]
  ELSE IF Retriable(replies[1]) THEN [outcome |-> TransportError, requests |-> 1]
  ELSE [outcome |-> Response(replies[1], elapsed), requests |-> 1]

\* request number n of one session.head call
RECURSIVE SendHead(_, _, _, _)
SendHead(cfg, replies, elapsed, n) ==
  IF ~Retriable(replies[n]) THEN [outcome |-> Response(replies[n], elapsed), requests |-> n]
  ELSE IF n <= RetryTotal(cfg) THEN SendHead(cfg, replies, elapsed, n + 1)
  ELSE [outcome |-> TransportError, requests |-> n]

\* self.session.head(url, ...) through the adapter setup_session mounts for
\* http:// and https:// (a url of another scheme has no adapter: the call
\* raises and nothing is sent): how the call ends and how many requests went
session_head(cfg, url, replies, elapsed) ==
  IF url[1] \notin {"http://", "https://"}
    THEN [outcome |-> TransportError, requests |-> 0]
  ELSE SendHead(cfg, replies, elapsed, 1)

\* check_channel_availability with its session.head call spelled out
ProbeOverSession(cfg, channel, replies, elapsed) ==
  IF ~cfg.enable_availability_check
    THEN [result |-> check_channel_availability(cfg, channel, TransportError),
          head_calls |-> 0, requests |-> 0]
  ELSE LET h == session_head(cfg, channel.url, replies, elapsed) IN
       [result |-> check_channel_availability(cfg, channel, h.outcome),
        head_calls |-> 1, requests |-> h.requests]

Replies == {NoReply, 200, 404, 503}

InitSession ==
  /\ Constructed
  /\ config \in {Config(TRUE, c, q, TRUE) : c \in BOOLEAN, q \in BOOLEAN}
  /\ pc = "call"
  /\ call \in {[fn |-> "check_channel_availability", channel |-> ch, replies |-> rs,
                elapsed |-> ms, ret |-> <<>>] :
                 ch \in {c \in Channels : c.source_file = Source1 \/ c.url[1] = "rtmp://"},
                 rs \in [1..MaxReplies -> Replies], ms \in {MaxLatency}}

ProbeChannel ==
  /\ pc = "call"
  /\ call.fn = "check_channel_availability"
  /\ call' = [call EXCEPT !.ret =
                <<ProbeOverSession(config, call.channel, call.replies, call.elapsed)>>]
  /\ pc' = "returned"
  /\ UNCHANGED <<config, channels_db, key_order, temp, successful_channels, merged, run_vars>>

NextSession == ProbeChannel

SpecSession == InitSession /\ [][NextSession]_vars

-----------------------------------------------------------------------------
(* Spec: run(), cycle after cycle *)

\* playlists.txt as load_playlist_urls may find it at the start of a cycle
UrlLists == {<<>>, <<Source1>>, <<Source1, Source2>>}

\* the documents a source serves
Pages(url) == IF url = Source1 THEN {DocPlain} ELSE {DocPage, DocNoList}

RunFetchOutcomes(url) ==
  {FetchRaised("timeout")}
    \cup {FetchResponse(200, d, w) : d \in Pages(url), w \in {"ok", "write_failed"}}

RunProbeOutcomes ==
  {Response(200, ms) : ms \in 1..MaxLatency} \cup {Response(404, 1), TransportError}

Init ==
  /\ Constructed
  /\ config \in {Config(d, c, q, TRUE) : d \in BOOLEAN, c \in BOOLEAN, q \in BOOLEAN}
  /\ pc = "loop"
  /\ call = NoCall

\* lines 600-603 and 389-395: a new iteration of the loop, load_playlist_urls
LoadUrls ==
  /\ pc = "loop"
  /\ cycle < MaxCycles
  /\ cycle' = cycle + 1
  /\ \E urls \in UrlLists :
       /\ playlist_urls' = urls
       /\ pc' = IF urls = <<>> THEN "generate" ELSE "download"
  /\ url_idx' = 1
  /\ downloaded_files' = <<>>
  /\ fetch_failed' = {}
  /\ all_channels' = <<>>
  /\ futures' = <<>>
  /\ successful_channels' = 0
  /\ cycle_start_db' = channels_db
  /\ UNCHANGED <<config, channels_db, key_order, temp, output_file, backups, stats_file,
                 merged, call>>

\* a plausible bug: a cache file left by an earlier fetch is used
Downloaded_cached(ret, files, url) == url \in DOMAIN files

\* line 400: filepath and os.path.exists(filepath)
Downloaded(ret, files, url) == ret # None /\ url \in DOMAIN files

\* lines 398-401: one iteration of the download loop
FetchNext ==
  /\ pc = "download"
  /\ url_idx <= Len(playlist_urls)
  /\ LET url == playlist_urls[url_idx] IN
     \E script \in [1..2 -> RunFetchOutcomes(url)] :
       LET r == download_playlist(config, url, script) IN
         /\ temp' = ApplyFile(temp, url, r.file)
         /\ downloaded_files' = IF Downloaded(r.ret, temp', url)
                                  THEN Append(downloaded_files, CachePath(url))
                                  ELSE downloaded_files
         /\ fetch_failed' = IF r.ret = None THEN fetch_failed \cup {url} ELSE fetch_failed
  /\ url_idx' = url_idx + 1
  /\ UNCHANGED <<config, channels_db, key_order, pc, cycle, playlist_urls, all_channels,
                 futures, successful_channels, cycle_start_db, output_file, backups, stats_file,
                 merged, call>>

\* os.path.basename(filepath): the name that stands for the source
Basename(filepath) == filepath[2]

\* lines 403-406
RECURSIVE ParseAll(_, _, _)
ParseAll(cfg, files, filepaths) ==
  IF filepaths = <<>> THEN <<>>
  ELSE parse_playlist(cfg, files[Basename(Head(filepaths))], Basename(Head(filepaths)))
         \o ParseAll(cfg, files, Tail(filepaths))

Pending == [state |-> "pending", result |-> <<>>]

\* lines 403-419: parse every downloaded file, then submit one probe per channel
ParsePlaylists ==
  /\ pc = "download"
  /\ url_idx > Len(playlist_urls)
  /\ all_channels' = ParseAll(config, temp, downloaded_files)
  /\ IF all_channels' = <<>>
       THEN pc' = "generate" /\ futures' = <<>>
       ELSE pc' = "probe" /\ futures' = [i \in 1..Len(all_channels') |-> Pending]
  /\ UNCHANGED <<config, channels_db, key_order, cycle, playlist_urls, url_idx,
                 downloaded_files, fetch_failed, temp, successful_channels,
                 cycle_start_db, output_file, backups, stats_file,
                 merged, call>>

Running == {i \in 1..Len(futures) : futures[i].state = "running"}

probe_frame == <<config, channels_db, key_order, pc, cycle, playlist_urls, url_idx,
                 downloaded_files, fetch_failed, temp, all_channels, successful_channels,
                 cycle_start_db, output_file, backups, stats_file,
                 merged, call>>

\* a plausible bug: a thread per submitted probe
IdleWorker_unbounded(futs, cfg) == TRUE

\* ThreadPoolExecutor(max_workers=max_concurrent_checks): a worker is idle
IdleWorker(futs, cfg) ==
  Cardinality({i \in 1..Len(futs) : futs[i].state = "running"}) < cfg.max_concurrent_checks

\* a worker of the pool takes the next submitted probe
StartProbe(i) ==
  /\ pc = "probe"
  /\ futures[i].state = "pending"
  /\ \A j \in 1..(i - 1) : futures[j].state # "pending"
  /\ IdleWorker(futures, config)
  /\ futures' = [futures EXCEPT ![i].state = "running"]
  /\ UNCHANGED probe_frame

\* a plausible bug: the worker merges its own result
WorkerRegistry_merges(db, cfg, result) ==
  IF result.available THEN update_channel_db(db, cfg, result.channel, result.ping) ELSE db

\* what check_channel_availability (lines 356-385) does to self.channels_db in
\* a worker: it neither reads nor writes it
WorkerRegistry(db, cfg, result) == db

\* check_channel_availability returns in the worker
FinishProbe(i) ==
  /\ pc = "probe"
  /\ futures[i].state = "running"
  /\ \E outcome \in RunProbeOutcomes :
       LET result == check_channel_availability(config, all_channels[i], outcome) IN
         /\ futures' = [futures EXCEPT ![i] = [state |-> "done", result |-> <<result>>]]
         /\ channels_db' = WorkerRegistry(channels_db, config, result)
         /\ key_order' = InsertionOrder(key_order, channels_db')
  /\ UNCHANGED <<config, pc, cycle, playlist_urls, url_idx, downloaded_files, fetch_failed,
                 temp, all_channels, successful_channels, cycle_start_db, output_file,
                 backups, stats_file, merged, call>>

\* a plausible bug: every result is merged
MergeResult_always(db, cfg, result) ==
  update_channel_db(db, cfg, result.channel, result.ping)

\* lines 422-424: what the consumer does to the registry with one result
MergeResult(db, cfg, result) ==
  IF result.available THEN update_channel_db(db, cfg, result.channel, result.ping) ELSE db

\* lines 421-425: as_completed hands over a finished future
ConsumeResult(i) ==
  /\ pc = "probe"
  /\ futures[i].state = "done"
  /\ LET result == futures[i].result[1] IN
       /\ channels_db' = MergeResult(channels_db, config, result)
       /\ key_order' = InsertionOrder(key_order, channels_db')
       /\ successful_channels' = IF result.available THEN successful_channels + 1
                                 ELSE successful_channels
  /\ futures' = [futures EXCEPT ![i].state = "consumed"]
  /\ UNCHANGED <<config, pc, cycle, playlist_urls, url_idx, downloaded_files, fetch_failed,
                 temp, all_channels, cycle_start_db, output_file, backups, stats_file,
                 merged, call>>

\* a plausible bug: the loop is left as soon as every probe was handed to a worker
LoopDrained_submitted(futs) == \A i \in 1..Len(futs) : futs[i].state # "pending"

\* lines 417-425: the loop over as_completed(futures) ends, and the with block
\* of the executor is left, when every submitted future was handed over
LoopDrained(futs) == \A i \in 1..Len(futs) : futs[i].state = "consumed"

AllConsumed == pc = "probe" /\ LoopDrained(futures)

\* line 431: process_playlists returns, its locals are gone
ProcessReturn ==
  /\ AllConsumed
  /\ pc' = "generate"
  /\ all_channels' = <<>>
  /\ futures' = <<>>
  /\ UNCHANGED <<config, channels_db, key_order, cycle, playlist_urls, url_idx,
                 downloaded_files, fetch_failed, temp, successful_channels,
                 cycle_start_db, output_file, backups, stats_file,
                 merged, call>>

\* the file operations of generate_playlist in a run: none of them fails
RunIo == IoOk

\* line 604, then the sleep of line 611; the cycle number stands for
\* datetime.now()
GeneratePlaylist ==
  /\ pc = "generate"
  /\ \E io \in {RunIo} :
       LET r == generate_playlist(config, channels_db, key_order,
                                  Files3(output_file, backups, stats_file), cycle, io)
       IN /\ output_file' = r.output
          /\ backups' = r.backups
          /\ stats_file' = r.stats
  /\ pc' = "loop"
  /\ UNCHANGED <<config, channels_db, key_order, cycle, playlist_urls, url_idx,
                 downloaded_files, fetch_failed, temp, all_channels, futures,
                 successful_channels, cycle_start_db, merged, call>>

Next ==
  \/ LoadUrls
  \/ FetchNext
  \/ ParsePlaylists
  \/ \E i \in 1..Len(futures) : StartProbe(i)
  \/ \E i \in 1..Len(futures) : FinishProbe(i)
  \/ \E i \in 1..Len(futures) : ConsumeResult(i)
  \/ ProcessReturn
  \/ GeneratePlaylist

Spec == Init /\ [][Next]_vars

-----------------------------------------------------------------------------
(* Claims about update_channel_db (SpecMerge) *)

KeysMerged == {normalize(m[1].name) : m \in merged}
MergedUnder(key) == {m \in merged : normalize(m[1].name) = key}
MinPing(key) ==
  LET pings == {m[2] : m \in MergedUnder(key)} IN
  CHOOSE p \in pings : \A q \in pings : p <= q

\* C1: with remove_duplicates on, after any sequence of merges the registry
\* has exactly the normalized keys of the merged candidates, and the entry of
\* each key carries the lowest latency merged under the key together with the
\* url, group, logo and source of a candidate merged with that latency.
C1_BestLatencyPerKey ==
  config.remove_duplicates =>
    /\ DOMAIN channels_db = KeysMerged
    /\ \A key \in KeysMerged :
         /\ channels_db[key].ping = MinPing(key)
         /\ \E m \in MergedUnder(key) :
              m[2] = MinPing(key) /\ channels_db[key] = RegistryEntry(m[1], m[2])

\* three candidates merged under one key with different latencies, the last
\* one slower than the stored one
C1_Witness ==
  /\ config.remove_duplicates
  /\ call.fn = "update_channel_db"
  /\ \E key \in KeysMerged :
       /\ Cardinality({m[1] : m \in MergedUnder(key)}) >= 3
       /\ Cardinality({m[2] : m \in MergedUnder(key)}) >= 2
       /\ call.ping > channels_db[key].ping
       /\ normalize(call.channel.name) = key

\* C3: a merge under a key the registry does not hold inserts the entry built
\* from the candidate and its latency, with remove_duplicates on or off.
C3_InsertWhenAbsent ==
  [][LET key == normalize(call'.channel.name) IN
     key \notin DOMAIN channels_db =>
       /\ key \in DOMAIN channels_db'
       /\ channels_db'[key] = RegistryEntry(call'.channel, call'.ping)]_vars

\* C6: with remove_duplicates on, a merge under a key the registry holds
\* leaves the registry as it is unless the new latency is strictly lower than
\* the stored ping.
C6_KeepUnlessStrictlyLower ==
  [][LET key == normalize(call'.channel.name) IN
     (/\ config.remove_duplicates
      /\ key \in DOMAIN channels_db
      /\ ~(call'.ping < channels_db[key].ping))
       => channels_db' = channels_db]_vars

\* the last merge came with the stored latency and another url, and the stored
\* entry is not the one it would have built
C6_Witness ==
  /\ config.remove_duplicates
  /\ call.fn = "update_channel_db"
  /\ LET key == normalize(call.channel.name) IN
       /\ key \in DOMAIN channels_db
       /\ call.ping = channels_db[key].ping
       /\ call.channel.url # channels_db[key].url

-----------------------------------------------------------------------------
(* Claims about download_playlist (SpecFetch) *)

\* the body, after markup extraction when it applies, holds '#EXTINF:'
MarkerAfterExtraction(cfg, body) ==
  ContainsExtInf(IF cfg.clean_html_files /\ LooksLikeHtml(body)
                   THEN clean_html_content(body) ELSE body)

GoodResponse(cfg, outcome) ==
  outcome.kind = "response" /\ outcome.status = 200
    /\ MarkerAfterExtraction(cfg, outcome.body)

Returned(fn) == pc = "returned" /\ call.fn = fn

\* C8 as stated: at most max_retries attempts (1 in quiet mode, 2 otherwise),
\* none after the first successful one, and a path is returned if and only if
\* some attempt received status 200 with a body that holds the marker.
C8_HandleIffGoodResponse ==
  Returned("download_playlist") =>
    LET r == call.ret[1]
        made == 1..r.attempts
    IN /\ r.attempts <= (IF config.quiet_mode THEN 1 ELSE 2)
       /\ (r.ret # None) <=> (\E a \in made : GoodResponse(config, call.script[a]))
       /\ \A a \in made : GoodResponse(config, call.script[a]) => a = r.attempts
       /\ r.ret = None => r.attempts = (IF config.quiet_mode THEN 1 ELSE 2)

\* C8 amended: the successful attempt is one that received such a response and
\* stored it in the cache file without an error.
C8_HandleIffStored ==
  Returned("download_playlist") =>
    LET r == call.ret[1]
        made == 1..r.attempts
        Stored(a) == GoodResponse(config, call.script[a]) /\ call.script[a].write = "ok"
    IN /\ r.attempts <= (IF config.quiet_mode THEN 1 ELSE 2)
       /\ (r.ret # None) <=> (\E a \in made : Stored(a))
       /\ \A a \in made : Stored(a) => a = r.attempts
       /\ r.ret = None => r.attempts = (IF config.quiet_mode THEN 1 ELSE 2)
       /\ r.ret # None => temp[call.url] = AttemptContent(config, call.script[r.attempts]).content

\* the first attempt received a 200 page with no list in it, the second one a
\* list that was stored
C8_Witness ==
  /\ Returned("download_playlist")
  /\ call.ret[1].ret # None
  /\ call.ret[1].attempts = 2
  /\ call.script[1].kind = "response" /\ call.script[1].status = 200
  /\ LooksLikeHtml(call.script[2].body)

-----------------------------------------------------------------------------
(* Claims about check_channel_availability (SpecProbe) *)

\* C10: with the check enabled, alive is true exactly when a response with a
\* status in {200, 301, 302, 307} was received, and every other outcome gives
\* alive = false with a latency of positive infinity.
C10_DeadMeansInfinite ==
  (Returned("check_channel_availability") /\ config.enable_availability_check) =>
    LET r == call.ret[1]
        o == call.outcome
    IN /\ r.available <=> (o.kind = "response" /\ o.status \in {200, 301, 302, 307})
       /\ ~r.available => r.ping = Inf

-----------------------------------------------------------------------------
(* Claims about the cycle (Spec) *)

Alive(i) == futures[i].result[1].available
KeyOf(i) == normalize(futures[i].result[1].channel.name)

\* the results of the cycle merged in the order the probes were submitted
RECURSIVE MergeInOrder(_, _, _, _)
MergeInOrder(db, cfg, futs, i) ==
  IF i > Len(futs) THEN db
  ELSE MergeInOrder(MergeResult(db, cfg, futs[i].result[1]), cfg, futs, i + 1)

\* no two alive results of the cycle share a key and a latency
NoTies ==
  \A i, j \in 1..Len(futures) :
    (i # j /\ Alive(i) /\ Alive(j) /\ KeyOf(i) = KeyOf(j))
      => futures[i].result[1].ping # futures[j].result[1].ping

\* C2 as stated: with remove_duplicates on, once every result of a cycle is
\* merged the registry is the same whatever the order of completion: it is the
\* registry that merging in submission order gives.
C2_OrderIndependentEntries ==
  (AllConsumed /\ config.remove_duplicates) =>
    channels_db = MergeInOrder(cycle_start_db, config, futures, 1)

\* C2 amended: the keys and the ping of every key do not depend on the order;
\* the whole entries do not either when no two alive results share a key and a
\* latency.
C2_OrderIndependentPing ==
  (AllConsumed /\ config.remove_duplicates) =>
    LET ref == MergeInOrder(cycle_start_db, config, futures, 1) IN
      /\ DOMAIN channels_db = DOMAIN ref
      /\ \A key \in DOMAIN ref : channels_db[key].ping = ref[key].ping
      /\ NoTies => channels_db = ref

\* two alive results under one key, the one submitted first being the slower
C2_Witness ==
  /\ AllConsumed
  /\ config.remove_duplicates
  /\ NoTies
  /\ \E i, j \in 1..Len(futures) :
       /\ i < j /\ Alive(i) /\ Alive(j) /\ KeyOf(i) = KeyOf(j)
       /\ futures[i].result[1].ping > futures[j].result[1].ping
       /\ channels_db[KeyOf(i)].url = futures[j].result[1].channel.url

\* no source url was loaded, or no candidate was found alive
BadCycle == playlist_urls = <<>> \/ successful_channels = 0

\* C4: a cycle in which no source url is loaded or no candidate is found alive
\* ends without modifying the output playlist, in every cycle of the run.
C4_BadCycleKeepsOutput ==
  [][(pc = "generate" /\ BadCycle) => output_file' = output_file]_vars

\* C5: consuming a result with alive = false changes neither the registry nor
\* the output.
C5_DeadResultIsNoOp ==
  [][\A i \in 1..Len(futures) :
       (/\ Len(futures') = Len(futures)
        /\ futures[i].state = "done"
        /\ futures'[i].state = "consumed"
        /\ ~Alive(i))
         => /\ channels_db' = channels_db
            /\ key_order' = key_order
            /\ output_file' = output_file]_vars

\* a dead result was consumed, its candidate is not in the registry, and the
\* registry holds another channel
C5_Witness ==
  /\ pc = "probe"
  /\ channels_db # EmptyDb
  /\ \E i \in 1..Len(futures) :
       /\ futures[i].state = "consumed"
       /\ ~Alive(i)
       /\ KeyOf(i) \notin DOMAIN channels_db

\* C7: a key of the registry stays in it and its ping never goes up, over any
\* number of cycles.
C7_RegistryOnlyImproves ==
  [][\A key \in DOMAIN channels_db :
       /\ key \in DOMAIN channels_db'
       /\ channels_db'[key].ping <= channels_db[key].ping]_vars

\* in a later cycle the probe of a stored url failed and its entry is still there
C7_Witness ==
  /\ cycle >= 2
  /\ pc = "probe"
  /\ \E i \in 1..Len(futures) :
       /\ futures[i].state = "consumed"
       /\ ~Alive(i)
       /\ KeyOf(i) \in DOMAIN cycle_start_db
       /\ KeyOf(i) \in DOMAIN channels_db
       /\ channels_db[KeyOf(i)].url = futures[i].result[1].channel.url

\* C9: a source whose fetch failed is passed over: it is not among the
\* downloaded files and no candidate of the cycle comes from it, whatever the
\* cache holds, and the download loop goes on to the next source.
C9_FailedSourceContributesNothing ==
  /\ \A u \in fetch_failed :
       \A i \in 1..Len(downloaded_files) : downloaded_files[i] # CachePath(u)
  /\ \A i \in 1..Len(all_channels) : all_channels[i].source_file \notin fetch_failed
  /\ pc = "download" => url_idx - 1 = Cardinality(fetch_failed) + Len(downloaded_files)

\* the first source failed while its list of an earlier cycle is in the cache,
\* and the second source gave the candidates of the cycle
C9_Witness ==
  /\ pc = "probe"
  /\ Source1 \in fetch_failed
  /\ Source1 \in DOMAIN temp
  /\ parse_playlist(config, temp[Source1], Source1) # <<>>
  /\ all_channels # <<>>

-----------------------------------------------------------------------------
(* Claims about clean_html_content (SpecClean) *)

\* C11: for a page that wraps a channel list (the section marker, then
\* metadata lines each followed by its url line) in html, body, script and
\* style tags, clean_html_content returns exactly the lines of the list in
\* their order: blocks and tags are gone, no line is added and none is dropped.
C11_ReturnsTheWrappedList ==
  (Returned("clean_html_content") /\ call.list # <<>>) => call.ret[1] = call.list

\* the automaton as C19 describes it: marker and metadata lines enter the
\* section and are kept, inside it a line with a scheme the parser accepts is
\* kept and stays inside, a comment changes nothing, any other line leaves it
RECURSIVE C19_Section(_, _, _, _)
C19_Section(lines, i, inside, kept) ==
  IF i > Len(lines) THEN kept
  ELSE LET line == lines[i] IN
    IF StartsExtM3U(line) \/ StartsExtInf(line)
      THEN C19_Section(lines, i + 1, TRUE, Append(kept, line))
    ELSE IF inside /\ StartsUri(line) THEN C19_Section(lines, i + 1, TRUE, Append(kept, line))
    ELSE IF inside /\ StartsHash(line) THEN C19_Section(lines, i + 1, TRUE, kept)
    ELSE C19_Section(lines, i + 1, FALSE, kept)

\* C19: in the line automaton of clean_html_content, inside the list section
\* every line that begins with a scheme the parser accepts (http, https, rtmp,
\* rtsp) is kept and does not leave the section, any other line that is not a
\* comment leaves it, and outside it no url line is kept until a marker or
\* metadata line enters it again.
C19_AcceptedSchemesStayInside ==
  (Returned("clean_html_content") /\ ~StartsWithList(call.content)) =>
    call.ret[1] =
      C19_Section(NonBlank(StripTags(RemoveBlocks(RemoveBlocks(call.content, "script"),
                                                  "style"))), 1, FALSE, <<>>)

-----------------------------------------------------------------------------
(* Claims about parse_playlist (SpecParse) *)

\* the display name extracted from a metadata line: tvg-name, else the text
\* after the last comma
C12_Extracted(extinf_line) ==
  IF extinf_line.tvg_name # <<>> THEN extinf_line.tvg_name ELSE extract_name(extinf_line)

C12_TooShort(cfg, extinf_line) ==
  C12_Extracted(extinf_line) = <<>>
    \/ Len(Strip(C12_Extracted(extinf_line))) < cfg.min_channel_name_length

\* C12: every candidate whose extracted display name is missing or shorter
\* than min_channel_name_length gets a placeholder name, and no other candidate
\* emitted from the same file, placeholder or not, has that name.
C12_PlaceholderUniqueInFile ==
  Returned("parse_playlist") =>
    LET lines == NonBlank(call.content)
        pairs == PairLoop(lines, 1, <<>>)
        channels == call.ret[1]
    IN /\ Len(channels) = Len(pairs)
       /\ \A n \in 1..Len(pairs) :
            C12_TooShort(config, lines[pairs[n][1]]) =>
              /\ channels[n].name = PlaceholderName(n - 1)
              /\ \A m \in 1..Len(channels) : m # n => channels[m].name # channels[n].name

\* the metadata line nearest before line j
C18_NearestExtInf(lines, j) ==
  LET before == {k \in 1..(j - 1) : StartsExtInf(lines[k])} IN
  CHOOSE k \in before : \A k2 \in before : k2 <= k

\* C18: a candidate is emitted for a metadata line only together with the url
\* line that follows it with no other metadata line in between; a metadata
\* line followed by another one before any url line gives no candidate, and
\* the name, group and logo of every candidate are those of the metadata line
\* nearest before its url line.
C18_PairsWithNearestMetadata ==
  Returned("parse_playlist") =>
    LET lines == NonBlank(call.content)
        pairs == PairLoop(lines, 1, <<>>)
        channels == call.ret[1]
    IN /\ Len(channels) = Len(pairs)
       /\ \A n \in 1..Len(pairs) :
            LET i == pairs[n][1]
                j == pairs[n][2]
                near == Candidate(config, lines[C18_NearestExtInf(lines, j)], lines[j],
                                  n - 1, call.source_file)
            IN /\ \A k \in (i + 1)..(j - 1) : ~StartsExtInf(lines[k])
               /\ channels[n].name = near.name
               /\ channels[n].group = near.group
               /\ channels[n].logo = near.logo

-----------------------------------------------------------------------------
(* Claims about generate_playlist (SpecRender, SpecBackup) *)

C13_Triples(channels) ==
  {<<channels[i].name, channels[i].url, channels[i].group>> : i \in 1..Len(channels)}

\* C13: the text generate_playlist writes for the registry, parsed again by
\* parse_playlist, gives the (name, url, group) triples of the registry, for
\* every registry the pipeline can build.
C13_RoundTrip ==
  (Returned("generate_playlist") /\ call.io.write = "ok") =>
    C13_Triples(parse_playlist(config, RenderLines(output_file.channels), "local_playlist.m3u"))
      = C13_Triples(Values(channels_db, key_order))

\* C15: a failure of the backup copy, of the pruning or of the statistics
\* write is not fatal: with the output write itself succeeding, the output
\* file holds the whole sorted registry whatever became of the backup, and
\* after a failed statistics write it is intact and the call ends without an
\* error of its own.
C15_HelperFailuresNotFatal ==
  (Returned("generate_playlist") /\ call.io.write = "ok") =>
    /\ output_file = Playlist(cycle, sort_channels(Values(channels_db, key_order)))
    /\ ~call.ret[1].error
    /\ call.io.stats = "ok" => stats_file = Stats(cycle, output_file.channels)

\* the copy failed, the statistics write failed, and the output of the earlier
\* cycle was replaced by the registry
C15_Witness ==
  /\ Returned("generate_playlist")
  /\ call.io.backup = "copy_failed"
  /\ call.io.stats = "failed"
  /\ call.io.write = "ok"
  /\ stats_file.exists /\ stats_file.generated < cycle
  /\ output_file.generated = cycle
  /\ Len(output_file.channels) >= 2

\* the backups of dir that are not in after
C14_Removed(dir, after) ==
  {dir[i] : i \in 1..Len(dir)} \ {after[i] : i \in 1..Len(after)}

-----------------------------------------------------------------------------
(* Claims about the pauses of download_playlist (SpecFetch) *)

\* C16: between any two consecutive attempts for one url the loop pauses
\* once, whatever made the earlier attempt fail (timeout, connection error,
\* status other than 200, failed markup extraction, body without the marker).
C16_PauseBetweenAttempts ==
  Returned("download_playlist") => call.ret[1].sleeps = call.ret[1].attempts - 1

-----------------------------------------------------------------------------
(* Claims about the requests of a probe (SpecSession) *)

RECURSIVE C17_Leading(_, _)
C17_Leading(replies, n) ==
  IF n <= Len(replies) /\ Retriable(replies[n]) THEN C17_Leading(replies, n + 1) ELSE n - 1

-----------------------------------------------------------------------------
(* Claims about the worker pool (Spec) *)

\* C20: while the candidates are probed, the probes in flight never number
\* more than max_concurrent_checks, however many candidates there are.
C20_BoundedInFlight == Cardinality(Running) <= config.max_concurrent_checks

\* every worker is busy and a submitted probe waits for one
C20_Witness ==
  /\ pc = "probe"
  /\ Len(futures) > config.max_concurrent_checks
  /\ Cardinality(Running) = config.max_concurrent_checks
  /\ \E i \in 1..Len(futures) : futures[i].state = "pending"

-----------------------------------------------------------------------------
(* Claims about who writes the registry (Spec) *)

\* C21: the registry has one writer: it changes only in a step of the
\* consumer, which takes one finished result from the completion stream and
\* merges it; a step of a probe worker leaves it as it is, under every
\* interleaving of workers and consumer.
C21_SingleWriter ==
  [][/\ (channels_db' # channels_db \/ key_order' # key_order) =>
          \E i \in 1..Len(futures) :
            /\ futures[i].state = "done"
            /\ Alive(i)
            /\ futures' = [futures EXCEPT ![i].state = "consumed"]
            /\ channels_db' = update_channel_db(channels_db, config,
                                                futures[i].result[1].channel,
                                                futures[i].result[1].ping)
     /\ \A i \in 1..Len(futures) :
          (/\ Len(futures') = Len(futures)
           /\ futures[i].state \in {"pending", "running"}
           /\ futures'[i].state # futures[i].state)
            => channels_db' = channels_db /\ key_order' = key_order]_vars

\* a worker finished an alive probe of a channel the registry does not hold
\* while the consumer had already merged another result of the cycle, and the
\* registry is as the consumer left it
C21_Witness ==
  /\ pc = "probe"
  /\ config.remove_duplicates
  /\ channels_db # cycle_start_db
  /\ \E i \in 1..Len(futures) : futures[i].state = "running"
  /\ \E i \in 1..Len(futures) :
       futures[i].state = "done" /\ Alive(i) /\ KeyOf(i) \notin DOMAIN channels_db

-----------------------------------------------------------------------------
(* Claims about the group markers of the output (SpecRender) *)

C22_IsMarker(line) == line.k = "comment" /\ line.rest = "#GROUP: "

\* C22: in the text generate_playlist writes, every '#GROUP:' line but the
\* first of the file has a blank line just before it, for every sorted
\* registry, one with a channel of the empty group included.
C22_BlankBeforeMarker ==
  (Returned("generate_playlist") /\ call.io.write = "ok" /\ output_file.exists) =>
    LET lines == RenderLines(output_file.channels) IN
      \A k \in 1..Len(lines) :
        (C22_IsMarker(lines[k]) /\ \E j \in 1..(k - 1) : C22_IsMarker(lines[j]))
          => lines[k - 1] = Line("blank")

-----------------------------------------------------------------------------
(* Claims about the order of probing and generating in a cycle (Spec) *)

C23_After(state) ==
  CASE state = "pending" -> "running"
    [] state = "running" -> "done"
    [] state = "done" -> "consumed"
    [] OTHER -> "consumed"

C23_AliveResults == {i \in 1..Len(futures) : Alive(i)}

\* C23: in every cycle one probe is submitted per parsed candidate, each is
\* started once, finishes once and has its result consumed once; the probe
\* phase is left for generate_playlist only when every probe has been
\* consumed and every alive result was handed to update_channel_db; and the
\* output, the backups and the statistics are written only by
\* generate_playlist, with no probe of the cycle outstanding.
C23_ProbeAllThenGenerate ==
  [][/\ (pc # "probe" /\ pc' = "probe") =>
          /\ Len(futures') = Len(all_channels')
          /\ \A i \in 1..Len(futures') : futures'[i].state = "pending"
     /\ (pc = "probe" /\ pc' = "probe") =>
          /\ Len(futures') = Len(futures)
          /\ all_channels' = all_channels
          /\ \A i \in 1..Len(futures) :
               futures'[i].state \in {futures[i].state, C23_After(futures[i].state)}
     /\ (pc = "probe" /\ pc' # "probe") =>
          /\ pc' = "generate"
          /\ \A i \in 1..Len(futures) : futures[i].state = "consumed"
          /\ successful_channels = Cardinality(C23_AliveResults)
          /\ config.remove_duplicates =>
               \A i \in C23_AliveResults :
                 /\ KeyOf(i) \in DOMAIN channels_db
                 /\ channels_db[KeyOf(i)].ping <= futures[i].result[1].ping
     /\ (output_file' # output_file \/ backups' # backups \/ stats_file' # stats_file) =>
          /\ pc = "generate"
          /\ futures = <<>>]_vars

\* a cycle that probed candidates, merged two alive results and then wrote the
\* output from the registry they changed
C23_Witness ==
  /\ pc = "loop"
  /\ successful_channels >= 2
  /\ channels_db # cycle_start_db
  /\ output_file.exists
  /\ output_file.generated = cycle
  /\ Len(output_file.channels) = Cardinality(DOMAIN channels_db)

-----------------------------------------------------------------------------
(* Claims about the registry's keys and latencies (Spec) *)

C24_Finite(ping) == ping < Inf

\* C24: in every reachable state every registry entry is stored under the
\* trimmed lower-case form of its own name and has a finite ping, every probe
\* result with alive = true carries a finite latency, and the average ping of
\* the output header and the average, minimum and maximum ping of the
\* statistics are finite.
C24_KeysAndFinitePings ==
  /\ \A key \in DOMAIN channels_db :
       /\ key = Strip(Lower(channels_db[key].name))
       /\ C24_Finite(channels_db[key].ping)
  /\ \A i \in 1..Len(futures) :
       (futures[i].state \in {"done", "consumed"} /\ Alive(i))
         => C24_Finite(futures[i].result[1].ping)
  /\ output_file.exists =>
       /\ C24_Finite(output_file.average_ping)
       /\ \A i \in 1..Len(output_file.channels) : C24_Finite(output_file.channels[i].ping)
  /\ stats_file.exists =>
       /\ C24_Finite(stats_file.average_ping)
       /\ C24_Finite(stats_file.min_ping)
       /\ C24_Finite(stats_file.max_ping)

\* the output and the statistics of this cycle were written from a registry
\* with two different latencies and a name that is not its own key
C24_Witness ==
  /\ pc = "loop"
  /\ output_file.exists
  /\ output_file.generated = cycle
  /\ stats_file.exists
  /\ stats_file.generated = cycle
  /\ stats_file.min_ping < stats_file.max_ping
  /\ \E key \in DOMAIN channels_db : channels_db[key].name # key

====
